---- MODULE Spec2Model ----
(***************************************************************************)
(* State-machine model of src/bot.py (LichessStockfishBot): the supervisor *)
(* loop (run / handle_event_stream), the per-game session (play_game), the *)
(* move selection (_maybe_make_move) with the engine process handle, the   *)
(* challenge acceptance policy (should_accept) and the status file; and of  *)
(* the bot process kept by src/control_panel.py.                           *)
(*                                                                         *)
(* Python values are encoded as follows.                                   *)
(*   None                      the string "None"                           *)
(*   True / False              TRUE / FALSE, but "True" / "False" where    *)
(*                             the value may also be None (my_color,       *)
(*                             board.turn: chess.WHITE is True)            *)
(*   a JSON field              a record tagged by k: "missing" (key        *)
(*                             absent), "null", "dict", "bool", "int",     *)
(*                             "float", "str", "badstr", "other"           *)
(*   moves_str                 the sequence of its whitespace-separated    *)
(*                             tokens                                      *)
(*   chess.Board               its move stack (the legal moves pushed)     *)
(*   seconds (float)           integer ticks of 0.1 microsecond            *)
(***************************************************************************)
EXTENDS Integers, Sequences, FiniteSets, TLC

VARIABLES
    pc,             \* control point of the single thread:
                    \*   "run"         run is about to start
                    \*   "events"      handle_event_stream waits for an event
                    \*   "dispatched"  an incoming event has been dealt with
                    \*   "game"        play_game waits for a message
                    \*   "handled"     a game-stream message has been dealt with
                    \*   "sleep5", "sleep10"   run sleeps before reconnecting
                    \*   "policy", "policy_done"   under PolicySpec only
                    \* under PanelSpec, the control point of each of the
                    \* panel's request threads
    event,          \* the incoming event last taken in handle_event_stream
    msg,            \* the game-stream message last taken in play_game
    game_id,        \* play_game's argument           (None outside a session)
    board,          \* play_game's local board        (<<>> outside a session)
    my_color,       \* play_game's local my_color     (None outside a session)
    opponent_name,  \* play_game's local opponent_name
    engine,         \* self.engine: the oracle process handle
    stateFile,      \* content of bot_state.json
    effects,        \* calls made to the collaborators by the last step, in order
    history,        \* what the bot has done so far: kept names the calls
                    \*   that are recorded (none but under MoveHistorySpec
                    \*   and ChallengeHistorySpec)
                    \*   submitted  the positions of the live session for
                    \*              which make_move had succeeded when the
                    \*              last message was taken
                    \*   accepted   the games whose challenge was accepted
                    \*              and whose session has not ended yet
    bot_process,    \* control_panel.bot_process: the panel's handle, the pid
                    \*   of the process it refers to (NoProcess for None)
    procs           \* the bot processes the panel has spawned, by pid:
                    \*   whether each is alive

vars == <<pc, event, msg, game_id, board, my_color, opponent_name, engine,
          stateFile, effects, history, bot_process, procs>>

None == "None"

\* bot_process = None (src/control_panel.py, line 20)
NoProcess == 0

-----------------------------------------------------------------------------
(* The history of the bot's calls *)

NoHistory == [kept |-> {}, submitted |-> {}, accepted |-> {}]

\* the calls effs were made for position b: make_move(game_id, move)
\* succeeded for it (line 371), or was not called
Submitted(h, b, effs) ==
    IF /\ "make_move" \in h.kept
       /\ \E i \in DOMAIN effs : effs[i].op = "make_move" /\ effs[i].ok
    THEN [h EXCEPT !.submitted = @ \cup {b}]
    ELSE h

\* accept_challenge(id) succeeded (line 146)
Accepted(h, id) ==
    IF "accept_challenge" \in h.kept
    THEN [h EXCEPT !.accepted = @ \cup {id}]
    ELSE h

\* play_game starts a session (line 193)
SessionOpened(h) == [h EXCEPT !.submitted = {}]

\* the session of game gid is over: play_game returns or raises
SessionClosed(h, gid) == [h EXCEPT !.submitted = {}, !.accepted = @ \ {gid}]

-----------------------------------------------------------------------------
(* Bounds of the model *)

\* longest move list a game-stream message carries
MaxMoves == 2

\* how many times the engine process may terminate unexpectedly
MaxEngineRestarts == 1

\* the integer clock values of ThinkSpec: the multiples of ClockStepMs
\* milliseconds from -ClockStepMs to MaxClockSteps * ClockStepMs
ClockStepMs == 800

MaxClockSteps == 26

\* most bot processes the control panel spawns
MaxSpawns == 3

-----------------------------------------------------------------------------
(* Configuration, bot.py lines 34-40 *)

ACCEPT_RATED == FALSE

ACCEPT_VARIANTS == {"standard"}

MAX_GAME_BASETIME_SEC == 900

MAX_GAME_INCREMENT_SEC == 10

\* ticks of 0.1 microsecond in one second
TicksPerSec == 10000000

\* 0.2 s
DEFAULT_THINK_TIME_SEC == 2000000

\* 0.05 s
MOVE_OVERHEAD_SEC == 500000

\* the floor 0.02 s and the ceiling 0.5 s of _choose_think_time
ThinkFloor == 200000

ThinkCeiling == 5000000

\* self.my_id
my_id == "bot"

-----------------------------------------------------------------------------
(* Small helpers *)

Range(s) == {s[i] : i \in 1..Len(s)}

Max2(a, b) == IF a >= b THEN a ELSE b

Min2(a, b) == IF a <= b THEN a ELSE b

\* Python int(x) of a float x given in thousandths: truncation toward zero
Trunc(milli) == IF milli >= 0 THEN milli \div 1000 ELSE -((-milli) \div 1000)

-----------------------------------------------------------------------------
(* The position tracker: chess.Board restricted to four quiet opening      *)
(* moves.  Within this fragment a move is legal exactly when its owner is  *)
(* to move and it has not been played yet (the piece still stands on the   *)
(* source square and nothing blocks it); any other token is rejected by    *)
(* push_uci.                                                               *)

WhiteMoves == {"e2e4", "g1f3"}

BlackMoves == {"e7e5", "g8f6"}

\* tokens the platform's move lists are made of ("zz" is not a move at all)
StreamTokens == {"e2e4", "e7e5", "zz"}

MoveLists == UNION {[1..n -> StreamTokens] : n \in 0..MaxMoves}

\* chess.Board()
InitialBoard == <<>>

\* board.turn
Turn(b) == IF Len(b) % 2 = 0 THEN "True" ELSE "False"

IsLegal(b, uci) ==
    /\ uci \in (IF Turn(b) = "True" THEN WhiteMoves ELSE BlackMoves)
    /\ uci \notin Range(b)

LegalMoves(b) == {m \in WhiteMoves \cup BlackMoves : IsLegal(b, m)}

\* board.push_uci(uci): pushes a legal move, raises on anything else
push_uci(b, uci) ==
    IF IsLegal(b, uci) THEN [raised |-> FALSE, board |-> Append(b, uci)]
                       ELSE [raised |-> TRUE, board |-> b]

RECURSIVE ApplyFrom(_, _, _, _)
ApplyFrom(b, errs, moves, i) ==
    IF i > Len(moves) THEN [board |-> b, errors |-> errs]
    ELSE LET r == push_uci(b, moves[i])
         IN  ApplyFrom(r.board,
                       IF r.raised THEN Append(errs, moves[i]) ELSE errs,
                       moves, i + 1)

\* _apply_moves(board, moves_str): every token is pushed in turn; a token that
\* push_uci rejects is logged and the loop goes on to the next token
apply_moves(b, moves) == ApplyFrom(b, <<>>, moves, 1)

\* moves_str.split()[-1] if moves_str else None
LastMove(moves) == IF Len(moves) = 0 THEN None ELSE moves[Len(moves)]

-----------------------------------------------------------------------------
(* Clock model and think-time policy *)

\* the try block of _to_ms, lines 332-342, on a raw value v:
\*   "null"       None
\*   "int"        an int, v.v
\*   "float"      a finite float of v.milli thousandths
\*   "nonfinite"  a float nan or inf: int(v) raises
\*   "str"        a string float() reads as v.milli thousandths
\*   "badstr"     a string float() rejects: float(v) raises
\*   "other"      any other type (a datetime, a list, a dict)
to_ms_body(v) ==
    CASE v.k = "null"      -> [raised |-> FALSE, value |-> 0]
      [] v.k = "int"       -> [raised |-> FALSE, value |-> v.v]
      [] v.k = "float"     -> [raised |-> FALSE, value |-> Trunc(v.milli)]
      [] v.k = "nonfinite" -> [raised |-> TRUE, value |-> None]
      [] v.k = "str"       -> [raised |-> FALSE, value |-> Trunc(v.milli)]
      [] v.k = "badstr"    -> [raised |-> TRUE, value |-> None]
      [] OTHER             -> [raised |-> FALSE, value |-> 0]

\* _to_ms(v): whatever the try block raises is turned into 0 (lines 343-344)
to_ms(v) == IF to_ms_body(v).raised THEN 0 ELSE to_ms_body(v).value

\* piece counts of a position of the fragment: nothing is ever captured
Queens(b) == 2

NonPawn(b) == 14

\* line 352, on the two counts
EndgameOf(queens, non_pawn) == queens = 0 \/ non_pawn <= 4

\* _is_endgame(board)
is_endgame(b) == EndgameOf(Queens(b), NonPawn(b))

\* mutant of ThinkTime: the last max(0.02, ...) of line 389 is left out
ThinkTimeNoFloor(endgame, my_time_ms) ==
    IF my_time_ms <= 0 THEN DEFAULT_THINK_TIME_SEC
    ELSE LET secs40 == my_time_ms * (TicksPerSec \div 40000)
             base   == Max2(ThinkFloor, Min2(ThinkCeiling, secs40))
             scaled == IF endgame THEN (base * 7) \div 10 ELSE base
         IN  scaled - MOVE_OVERHEAD_SEC

\* mutant of ThinkTime: the endgame factor of lines 386-387 is left out
ThinkTimeNoEndgame(endgame, my_time_ms) ==
    IF my_time_ms <= 0 THEN DEFAULT_THINK_TIME_SEC
    ELSE LET secs40 == my_time_ms * (TicksPerSec \div 40000)
             base   == Max2(ThinkFloor, Min2(ThinkCeiling, secs40))
         IN  Max2(ThinkFloor, base - MOVE_OVERHEAD_SEC)

\* mutant of ThinkTime: a clock under one second is taken for an unknown one
ThinkTimeLowAsUnknown(endgame, my_time_ms) ==
    IF my_time_ms <= 1000 THEN DEFAULT_THINK_TIME_SEC
    ELSE LET secs40 == my_time_ms * (TicksPerSec \div 40000)
             base   == Max2(ThinkFloor, Min2(ThinkCeiling, secs40))
             scaled == IF endgame THEN (base * 7) \div 10 ELSE base
         IN  Max2(ThinkFloor, scaled - MOVE_OVERHEAD_SEC)

\* _choose_think_time, on the endgame flag and the remaining milliseconds
ThinkTime(endgame, my_time_ms) ==
    IF my_time_ms <= 0 THEN DEFAULT_THINK_TIME_SEC
    ELSE LET secs40 == my_time_ms * (TicksPerSec \div 40000)
             base   == Max2(ThinkFloor, Min2(ThinkCeiling, secs40))
             scaled == IF endgame THEN (base * 7) \div 10 ELSE base
         IN  Max2(ThinkFloor, scaled - MOVE_OVERHEAD_SEC)

choose_think_time(b, my_time_ms) == ThinkTime(is_endgame(b), my_time_ms)

\* raw clock values a game-stream message carries in this model
ClockInputs == {[k |-> "null"], [k |-> "int", v |-> 8000]}

-----------------------------------------------------------------------------
(* The status file *)

\* _set_current_game_state's data (updated_at left out)
StateData(gid, status, color, last_move, opponent) ==
    [status |-> status, game_id |-> gid, color |-> color,
     last_move |-> last_move, opponent |-> opponent]

\* _clear_state's data
IdleData == StateData(None, "idle", None, None, None)

WriteEffect(data) == [op |-> "write_state", data |-> data]

-----------------------------------------------------------------------------
(* Challenge acceptance policy *)

Missing == [k |-> "missing"]

Null == [k |-> "null"]

\* Python int(x) as should_accept uses it: a record [raised, v]
PyInt(x) ==
    CASE x.k = "int"   -> [raised |-> FALSE, v |-> x.v]
      [] x.k = "float" -> [raised |-> FALSE, v |-> Trunc(x.milli)]
      [] x.k = "str"   -> IF x.milli % 1000 = 0 /\ x.intform
                          THEN [raised |-> FALSE, v |-> x.milli \div 1000]
                          ELSE [raised |-> TRUE, v |-> 0]
      [] OTHER         -> [raised |-> TRUE, v |-> 0]

\* d.get(key, {}).get(sub): "raise" when d[key] is null (None has no .get)
SubField(f, sub) ==
    CASE f.k = "missing" -> [raised |-> FALSE, v |-> None]
      [] f.k = "dict"    -> [raised |-> FALSE, v |-> f[sub]]
      [] OTHER           -> [raised |-> TRUE, v |-> None]

\* bool(ch.get("rated", False))
Truthy(f) == f.k = "bool" /\ f.v

\* tc.get(name, 0) of a timeControl dict
GetOrZero(f) == IF f.k = "missing" THEN [k |-> "int", v |-> 0] ELSE f

Returned(b) == [raised |-> FALSE, value |-> b]

\* mutant of OverCeiling: the ceilings themselves are refused (>= for >)
OverCeilingInclusive(base, inc) ==
    base >= MAX_GAME_BASETIME_SEC \/ inc >= MAX_GAME_INCREMENT_SEC

\* line 123: base > MAX_GAME_BASETIME_SEC or inc > MAX_GAME_INCREMENT_SEC
OverCeiling(base, inc) ==
    base > MAX_GAME_BASETIME_SEC \/ inc > MAX_GAME_INCREMENT_SEC

Raised == [raised |-> TRUE, value |-> FALSE]

\* the body of should_accept's try block (lines 109-126), statement by
\* statement: a returned value, or an exception
should_accept_body(ch) ==
    LET challenger == SubField(ch.challenger, "id")
        variant    == SubField(ch.variant, "key")
        tc         == ch.timeControl
    IN
    IF challenger.raised THEN Raised
    ELSE IF challenger.v = my_id THEN Returned(FALSE)
    ELSE IF variant.raised THEN Raised
    ELSE IF variant.v \notin ACCEPT_VARIANTS THEN Returned(FALSE)
    ELSE IF Truthy(ch.rated) /\ ~ACCEPT_RATED THEN Returned(FALSE)
    ELSE IF tc.k = "null" THEN Raised
    ELSE IF tc.k = "missing" THEN Returned(FALSE)
    ELSE IF tc.type # "clock" THEN Returned(FALSE)
    ELSE LET base == PyInt(GetOrZero(tc.limit))
             inc  == PyInt(GetOrZero(tc.increment))
         IN  IF base.raised \/ inc.raised THEN Raised
             ELSE IF OverCeiling(base.v, inc.v) THEN Returned(FALSE)
             ELSE Returned(TRUE)

\* mutant of should_accept: no try/except around the body
should_accept_unguarded(ch) == should_accept_body(ch)

\* should_accept(ch): the try block, with "except Exception: return False"
should_accept(ch) ==
    LET r == should_accept_body(ch)
    IN  IF r.raised THEN Returned(FALSE) ELSE r

\* JSON values of the challenge fields
ChallengerInputs ==
    {Missing, Null, [k |-> "dict", id |-> my_id], [k |-> "dict", id |-> "opp"]}

VariantInputs ==
    {Missing, Null, [k |-> "dict", key |-> "standard"],
     [k |-> "dict", key |-> "chess960"]}

RatedInputs ==
    {Missing, Null, [k |-> "bool", v |-> TRUE], [k |-> "bool", v |-> FALSE]}

LimitInputs ==
    {Missing, Null, [k |-> "badstr"],
     [k |-> "int", v |-> 0], [k |-> "int", v |-> 900], [k |-> "int", v |-> 901],
     [k |-> "str", milli |-> 901000, intform |-> TRUE]}

IncrementInputs ==
    {Missing, [k |-> "badstr"],
     [k |-> "int", v |-> 10], [k |-> "int", v |-> 11]}

TimeControlInputs ==
    {Missing, Null,
     [k |-> "dict", type |-> "unlimited", limit |-> Missing, increment |-> Missing],
     [k |-> "dict", type |-> "correspondence", limit |-> Missing,
      increment |-> Missing]}
    \cup {[k |-> "dict", type |-> "clock", limit |-> l, increment |-> i] :
            l \in LimitInputs, i \in IncrementInputs}

Challenges ==
    {[id |-> "c1", challenger |-> c, variant |-> v, rated |-> r, timeControl |-> t] :
        c \in ChallengerInputs, v \in VariantInputs, r \in RatedInputs,
        t \in TimeControlInputs}

\* the challenges the supervisor's event stream delivers in Spec: two the
\* policy accepts, and one rejected for each reason; an accepted challenge
\* becomes the game of the same id (GameIds)
ClockTC(l, i) ==
    [k |-> "dict", type |-> "clock",
     limit |-> [k |-> "int", v |-> l], increment |-> [k |-> "int", v |-> i]]

Unrated == [k |-> "bool", v |-> FALSE]

Standard == [k |-> "dict", key |-> "standard"]

Opp == [k |-> "dict", id |-> "opp"]

StreamChallenges ==
    {[id |-> "g1", challenger |-> Opp, variant |-> Standard, rated |-> Unrated,
      timeControl |-> ClockTC(900, 10)],
     [id |-> "g2", challenger |-> Opp, variant |-> Standard, rated |-> Unrated,
      timeControl |-> ClockTC(300, 0)],
     [id |-> "c2", challenger |-> Opp, variant |-> Standard, rated |-> Unrated,
      timeControl |-> ClockTC(901, 0)],
     [id |-> "c3", challenger |-> Opp, variant |-> Standard,
      rated |-> [k |-> "bool", v |-> TRUE], timeControl |-> ClockTC(300, 0)],
     [id |-> "c4", challenger |-> [k |-> "dict", id |-> my_id],
      variant |-> Standard, rated |-> Unrated, timeControl |-> ClockTC(300, 0)],
     [id |-> "c5", challenger |-> Null, variant |-> Standard, rated |-> Unrated,
      timeControl |-> ClockTC(300, 0)]}

-----------------------------------------------------------------------------
(* The oracle: self.engine and _maybe_make_move *)

\* the process started and configured by __init__ (lines 93-102)
InitialEngine == [gen |-> 0, alive |-> TRUE, configured |-> TRUE]

\* mutant of RestartedEngine: the new process is not assigned to self.engine
RestartedEngineDropped(eng) == eng

\* the process started by the restart of line 375: popen_uci alone
RestartedEngine(eng) == [gen |-> eng.gen + 1, alive |-> TRUE, configured |-> FALSE]

Outcome(r, m, sent, restart) == [r |-> r, move |-> m, sent |-> sent, restart |-> restart]

\* what engine.play, make_move and popen_uci can do in one move attempt:
\*   "move"        play returns result.move = move; make_move succeeds (sent)
\*                 or raises
\*   "none"        play returns result.move = None
\*   "error"       play raises an exception other than EngineTerminatedError
\*   "terminated"  play raises EngineTerminatedError; popen_uci then succeeds
\*                 (restart) or raises
\* a terminated process can only report termination
Outcomes(eng, b) ==
    LET term == {Outcome("terminated", None, FALSE, ok) : ok \in BOOLEAN}
    IN  IF ~eng.alive THEN term
        ELSE {Outcome("move", m, sent, FALSE) : m \in LegalMoves(b), sent \in BOOLEAN}
             \cup {Outcome("none", None, FALSE, FALSE), Outcome("error", None, FALSE, FALSE)}
             \cup (IF eng.gen < MaxEngineRestarts THEN term ELSE {})

Traceback(src) == [op |-> "traceback", src |-> src]

\* engine.play(board, Limit(time=think), ...) and what came of it
PlayEffect(eng, b, think, result) ==
    [op |-> "play", gen |-> eng.gen, configured |-> eng.configured, board |-> b,
     think |-> think, result |-> result]

\* mutant of SubmitEffects: a failed submission is tried a second time
SubmitEffectsRetrying(gid, move, sent) ==
    <<[op |-> "make_move", game_id |-> gid, move |-> move, ok |-> sent]>>
    \o (IF sent THEN <<>>
        ELSE <<[op |-> "make_move", game_id |-> gid, move |-> move, ok |-> TRUE]>>)

\* self.client.bots.make_move(game_id, move.uci()), line 371
SubmitEffects(gid, move, sent) ==
    <<[op |-> "make_move", game_id |-> gid, move |-> move, ok |-> sent]>>
    \o (IF sent THEN <<>> ELSE <<Traceback("make_move")>>)

\* the EngineTerminatedError handler, lines 373-375
RestartEffects(out) == <<[op |-> "popen_uci", ok |-> out.restart]>>

\* whether _maybe_make_move returns normally: its try block catches every
\* exception of play and make_move (lines 373 and 376), but the restart of
\* line 375 runs inside the handler, where nothing catches what it raises
ReturnsNormally(out) == out.r # "terminated" \/ out.restart

\* _maybe_make_move(game_id, board, state_msg, my_color) under outcome out:
\* the engine handle it leaves, the calls it makes, and whether it raises
maybe_make_move(gid, b, wtime, btime, color, eng, out) ==
    LET wtime_ms   == to_ms(wtime)
        btime_ms   == to_ms(btime)
        my_time_ms == IF color = "True" THEN wtime_ms ELSE btime_ms
        think      == choose_think_time(b, my_time_ms)
        calls      ==
            CASE out.r = "move" ->
                   <<PlayEffect(eng, b, think, out.move)>>
                   \o SubmitEffects(gid, out.move, out.sent)
              [] out.r = "none" ->
                   <<PlayEffect(eng, b, think, None)>>
              [] out.r = "error" ->
                   <<PlayEffect(eng, b, think, "Exception"), Traceback("play")>>
              [] out.r = "terminated" ->
                   <<PlayEffect(eng, b, think, "EngineTerminatedError")>>
                   \o RestartEffects(out)
    IN  [engine  |-> IF out.r # "terminated" THEN eng
                     ELSE IF out.restart THEN RestartedEngine(eng)
                     ELSE [eng EXCEPT !.alive = FALSE],
         raised  |-> ~ReturnsNormally(out),
         effects |-> calls]

-----------------------------------------------------------------------------
(* The game session: play_game *)

GameIds == {"g1", "g2"}

\* the player slots of a gameFull message: the bot, a human opponent, and
\* the platform's AI (a slot with neither id nor name)
Bot == [id |-> my_id, name |-> "Bot"]

Human == [id |-> "opp", name |-> "Opp"]

Ai == [id |-> None, name |-> None]

PlayerPairs ==
    {[white |-> Bot, black |-> Human], [white |-> Human, black |-> Bot],
     [white |-> Bot, black |-> Ai], [white |-> Human, black |-> Ai]}

\* lines 207-212
OwnSide(players, color) ==
    IF players.white.id = my_id THEN "True"
    ELSE IF players.black.id = my_id THEN "False"
    ELSE color

\* lines 215-228 (the slots of this model carry no "user" sub-record)
OpponentOf(players, color, opponent) ==
    IF color = "True" THEN players.black.name
    ELSE IF color = "False" THEN players.white.name
    ELSE opponent

\* lines 237-241 and 265-269
ColorStr(color) ==
    IF color = "True" THEN "white" ELSE IF color = "False" THEN "black" ELSE None

\* mutant of ShouldMove: an unknown side is taken for white
ShouldMoveUnknownAsWhite(b, color) ==
    Turn(b) = (IF color = None THEN "True" ELSE color)

\* lines 252 and 279
ShouldMove(b, color) == color # None /\ Turn(b) = color

NoEvent == [type |-> None]

NoMsg == [type |-> None, moves |-> <<>>]

\* mutant of AfterGameError: handle_event_stream does not catch the exception,
\* which reaches the "except Exception" of run
AfterGameErrorUncaught == "sleep10"

\* where control goes when play_game raises: handle_event_stream catches it
\* (lines 159-161) and goes on to the next incoming event
AfterGameError == "dispatched"

\* play_game has returned or raised: no session is live (game_id is None).
\* Its locals board, my_color and opponent_name are dead; they keep their
\* last values here, and only the assignments of lines 193-195 make the next
\* session start afresh
SessionCleared ==
    /\ game_id' = None
    /\ msg' = NoMsg
    /\ history' = SessionClosed(history, game_id)
    /\ UNCHANGED <<board, my_color, opponent_name>>

Tracebacks(errs) == [i \in 1..Len(errs) |-> Traceback("push_uci")]

\* the call _apply_moves(board, moves_str), with the board it is given
ReplayEffect(start, moves) == [op |-> "apply_moves", board |-> start, moves |-> moves]

\* the status published for a gameFull or gameState message
PlayingData(gid, color, moves, opponent) ==
    StateData(gid, "playing", ColorStr(color), LastMove(moves), opponent)

\* lines 230-253 and 257-280: replay the move list on start, publish the
\* status, and move if it is this side's turn
HandlePosition(type, moves, start, color, opponent) ==
    LET ap   == apply_moves(start, moves)
        data == PlayingData(game_id, color, moves, opponent)
        pre  == <<ReplayEffect(start, moves)>> \o Tracebacks(ap.errors)
                \o <<WriteEffect(data)>>
    IN  /\ stateFile' = data
        /\ event' = event
        /\ IF ShouldMove(ap.board, color)
           THEN \E wtime \in ClockInputs, btime \in ClockInputs,
                   out \in Outcomes(engine, ap.board) :
                  LET r == maybe_make_move(game_id, ap.board, wtime, btime,
                                           color, engine, out)
                  IN  /\ engine' = r.engine
                      /\ IF r.raised
                         THEN /\ pc' = AfterGameError
                              /\ SessionCleared
                              /\ effects' = pre \o r.effects
                                            \o <<Traceback("play_game")>>
                         ELSE /\ pc' = "handled"
                              /\ msg' = [type |-> type, moves |-> moves]
                              /\ game_id' = game_id
                              /\ board' = ap.board
                              /\ my_color' = color
                              /\ opponent_name' = opponent
                              /\ effects' = pre \o r.effects
                              /\ history' = history
           ELSE /\ pc' = "handled"
                /\ msg' = [type |-> type, moves |-> moves]
                /\ game_id' = game_id
                /\ board' = ap.board
                /\ my_color' = color
                /\ opponent_name' = opponent
                /\ engine' = engine
                /\ effects' = pre
                /\ history' = history

\* a gameFull message, lines 205-253
GameFull ==
    /\ pc = "game"
    /\ \E players \in PlayerPairs, moves \in MoveLists :
         LET color == OwnSide(players, my_color)
         IN  HandlePosition("gameFull", moves, board, color,
                            OpponentOf(players, color, opponent_name))
    /\ UNCHANGED <<bot_process, procs>>

\* a gameState message, lines 255-280
GameState ==
    /\ pc = "game"
    /\ \E moves \in MoveLists :
         HandlePosition("gameState", moves, InitialBoard, my_color, opponent_name)
    /\ UNCHANGED <<bot_process, procs>>

\* a gameFull message whose "white", "black" or "state" field is null:
\* msg.get(field, {}) hands back None and the .get on it raises AttributeError
\* (lines 207, 208, 230) before anything is replayed or published; play_game
\* has no handler, so the exception leaves it
MalformedGameFull ==
    /\ pc = "game"
    /\ pc' = AfterGameError
    /\ SessionCleared
    /\ \E field \in {"white", "black", "state"} :
         effects' = <<[op |-> "AttributeError", type |-> "gameFull",
                       field |-> field],
                      Traceback("play_game")>>
    /\ UNCHANGED <<event, engine, stateFile>>
    /\ UNCHANGED <<bot_process, procs>>

\* a chatLine message, or one of a type play_game has no branch for
ChatLine ==
    /\ pc = "game"
    /\ pc' = "handled"
    /\ \E type \in {"chatLine", "opponentGone"} :
         msg' = [type |-> type, moves |-> <<>>]
    /\ effects' = <<>>
    /\ UNCHANGED <<event, game_id, board, my_color, opponent_name, engine,
                   stateFile>>
    /\ UNCHANGED <<history, bot_process, procs>>

\* mutant of NextMessage: play_game runs beside the event loop (as a thread
\* would), so control is back in handle_event_stream while the session lives
NextMessageBesideEventLoop ==
    /\ pc = "handled"
    /\ pc' = "events"
    /\ msg' = NoMsg
    /\ effects' = <<>>
    /\ history' = Submitted(history, board, effects)
    /\ UNCHANGED <<event, game_id, board, my_color, opponent_name, engine,
                   stateFile>>
    /\ UNCHANGED <<bot_process, procs>>

\* the body of the loop is done: play_game waits for the next message (line 202)
NextMessage ==
    /\ pc = "handled"
    /\ pc' = "game"
    /\ msg' = NoMsg
    /\ effects' = <<>>
    /\ history' = Submitted(history, board, effects)
    /\ UNCHANGED <<event, game_id, board, my_color, opponent_name, engine,
                   stateFile>>
    /\ UNCHANGED <<bot_process, procs>>

\* the game stream ends: lines 286-290, then back in handle_event_stream
GameStreamEnd ==
    /\ pc = "game"
    /\ pc' = "dispatched"
    /\ SessionCleared
    /\ stateFile' = IdleData
    /\ effects' = <<WriteEffect(StateData(game_id, "finished", None, None, None)),
                    WriteEffect(IdleData)>>
    /\ UNCHANGED <<event, engine>>
    /\ UNCHANGED <<bot_process, procs>>

\* reading the game stream raises (the connection is lost, the platform
\* answers with an error): the exception leaves play_game at line 202
GameStreamError ==
    /\ pc = "game"
    /\ pc' = AfterGameError
    /\ SessionCleared
    /\ effects' = <<Traceback("play_game")>>
    /\ UNCHANGED <<event, engine, stateFile>>
    /\ UNCHANGED <<bot_process, procs>>

-----------------------------------------------------------------------------
(* The supervisor: run and handle_event_stream *)

Subscribe == [op |-> "stream_incoming_events"]

\* run, lines 168-172: clear the status file and open the event stream
RunStart ==
    /\ pc = "run"
    /\ pc' = "events"
    /\ stateFile' = IdleData
    /\ effects' = <<WriteEffect(IdleData), Subscribe>>
    /\ UNCHANGED <<event, msg, game_id, board, my_color, opponent_name, engine>>
    /\ UNCHANGED <<history, bot_process, procs>>

\* mutant of ChallengeReply: every challenge is accepted
ChallengeReplyAlwaysAccept(ch) == "accept_challenge"

\* the call answering a challenge, lines 141-149
ChallengeReply(ch) ==
    IF should_accept(ch).value THEN "accept_challenge" ELSE "decline_challenge"

\* a challenge event, lines 137-152; the call to the platform succeeds (ok)
\* or raises, which is caught
ChallengeEvent ==
    /\ pc = "events"
    /\ pc' = "dispatched"
    /\ \E ch \in StreamChallenges, ok \in BOOLEAN :
         /\ event' = [type |-> "challenge", challenge |-> ch]
         /\ effects' =
              <<[op |-> ChallengeReply(ch), id |-> ch.id, ok |-> ok]>>
              \o (IF ok THEN <<>> ELSE <<Traceback("challenge")>>)
         /\ history' =
              IF ok /\ ChallengeReply(ch) = "accept_challenge"
              THEN Accepted(history, ch.id) ELSE history
    /\ UNCHANGED <<msg, game_id, board, my_color, opponent_name, engine,
                   stateFile>>
    /\ UNCHANGED <<bot_process, procs>>

\* mutant of GameStartEvent: board, my_color and opponent_name are kept on
\* the bot object and set once, at construction, not in play_game
GameStartEventKeepingLocals ==
    /\ pc = "events"
    /\ \E g \in GameIds :
         /\ event' = [type |-> "gameStart", game |-> g]
         /\ game_id' = g
         /\ stateFile' = StateData(g, "starting", None, None, None)
         /\ effects' = <<WriteEffect(StateData(g, "starting", None, None, None)),
                         [op |-> "stream_game_state", game_id |-> g]>>
    /\ pc' = "game"
    /\ msg' = NoMsg
    /\ UNCHANGED <<board, my_color, opponent_name, engine>>
    /\ history' = SessionOpened(history)
    /\ UNCHANGED <<bot_process, procs>>

\* a gameStart event, lines 154-158, and play_game up to its loop, lines 193-202
GameStartEvent ==
    /\ pc = "events"
    /\ \E g \in GameIds :
         /\ event' = [type |-> "gameStart", game |-> g]
         /\ game_id' = g
         /\ stateFile' = StateData(g, "starting", None, None, None)
         /\ effects' = <<WriteEffect(StateData(g, "starting", None, None, None)),
                         [op |-> "stream_game_state", game_id |-> g]>>
    /\ pc' = "game"
    /\ board' = InitialBoard
    /\ my_color' = None
    /\ opponent_name' = None
    /\ msg' = NoMsg
    /\ UNCHANGED engine
    /\ history' = SessionOpened(history)
    /\ UNCHANGED <<bot_process, procs>>

\* a gameFinish event: line 163
GameFinishEvent ==
    /\ pc = "events"
    /\ pc' = "dispatched"
    /\ \E g \in GameIds : event' = [type |-> "gameFinish", game |-> g]
    /\ effects' = <<>>
    /\ UNCHANGED <<msg, game_id, board, my_color, opponent_name, engine,
                   stateFile>>
    /\ UNCHANGED <<history, bot_process, procs>>

\* the event has been dealt with: handle_event_stream waits for the next one
\* (line 134)
NextEvent ==
    /\ pc = "dispatched"
    /\ pc' = "events"
    /\ event' = NoEvent
    /\ effects' = <<>>
    /\ UNCHANGED <<msg, game_id, board, my_color, opponent_name, engine,
                   stateFile>>
    /\ UNCHANGED <<history, bot_process, procs>>

\* seconds run sleeps after the event stream ended, lines 173-184
Backoff(cause) == IF cause = "unexpected" THEN 10 ELSE 5

SleepPc(secs) == IF secs = 5 THEN "sleep5" ELSE "sleep10"

\* the event stream ends: cleanly, by a transport error (ChunkedEncodingError,
\* ConnectionError) or by any other exception
EventStreamEnd ==
    /\ pc = "events"
    /\ \E cause \in {"clean", "transport", "unexpected"} :
         /\ pc' = SleepPc(Backoff(cause))
         /\ effects' = <<[op |-> "sleep", secs |-> Backoff(cause), cause |-> cause]>>
    /\ event' = NoEvent
    /\ UNCHANGED <<msg, game_id, board, my_color, opponent_name, engine,
                   stateFile>>
    /\ UNCHANGED <<history, bot_process, procs>>

\* mutant of Reconnect: run gives up after an unexpected error
ReconnectAfterShortSleepOnly ==
    /\ pc = "sleep5"
    /\ pc' = "events"
    /\ effects' = <<[op |-> "stream_incoming_events"]>>
    /\ UNCHANGED <<event, msg, game_id, board, my_color, opponent_name, engine,
                   stateFile>>
    /\ UNCHANGED <<history, bot_process, procs>>

\* the sleep returns and the while loop of run calls handle_event_stream again
Reconnect ==
    /\ pc \in {"sleep5", "sleep10"}
    /\ pc' = "events"
    /\ effects' = <<Subscribe>>
    /\ UNCHANGED <<event, msg, game_id, board, my_color, opponent_name, engine,
                   stateFile>>
    /\ UNCHANGED <<history, bot_process, procs>>

-----------------------------------------------------------------------------
(* Specifications *)

\* a status file left behind by an earlier process
StaleData == StateData("g1", "playing", "white", "e2e4", "Opp")

Init ==
    /\ pc = "run"
    /\ event = NoEvent
    /\ msg = NoMsg
    /\ game_id = None
    /\ board = InitialBoard
    /\ my_color = None
    /\ opponent_name = None
    /\ engine = InitialEngine
    /\ stateFile \in {IdleData, StaleData}
    /\ effects = <<>>
    /\ history = NoHistory
    /\ bot_process = NoProcess
    /\ procs = <<>>

Next ==
    \/ RunStart
    \/ ChallengeEvent
    \/ GameStartEvent
    \/ GameFinishEvent
    \/ NextEvent
    \/ EventStreamEnd
    \/ Reconnect
    \/ MalformedGameFull
    \/ GameFull
    \/ GameState
    \/ ChatLine
    \/ NextMessage
    \/ GameStreamEnd
    \/ GameStreamError

Spec == Init /\ [][Next]_vars

\* the acceptance policy alone, applied to every challenge of Challenges
PolicyInit ==
    /\ pc = "policy"
    /\ event \in {[type |-> "challenge", challenge |-> ch] : ch \in Challenges}
    /\ msg = NoMsg
    /\ game_id = None
    /\ board = InitialBoard
    /\ my_color = None
    /\ opponent_name = None
    /\ engine = InitialEngine
    /\ stateFile = IdleData
    /\ effects = <<>>
    /\ history = NoHistory
    /\ bot_process = NoProcess
    /\ procs = <<>>

\* the call should_accept(ch) of line 141, with what it hands to its caller
PolicyEval ==
    /\ pc = "policy"
    /\ pc' = "policy_done"
    /\ effects' = <<[op |-> "should_accept",
                     raised |-> should_accept(event.challenge).raised,
                     value |-> should_accept(event.challenge).value]>>
    /\ UNCHANGED <<event, msg, game_id, board, my_color, opponent_name, engine,
                   stateFile>>
    /\ UNCHANGED <<history, bot_process, procs>>

PolicyNext == PolicyEval

PolicySpec == PolicyInit /\ [][PolicyNext]_vars

\* the sleep of run returns: the only wait the supervisor itself imposes
FairSpec == Spec /\ WF_vars(Reconnect)

\* the bot of Spec, with the history of the calls in kept recorded
HistoryInit(kept) ==
    /\ pc = "run"
    /\ event = NoEvent
    /\ msg = NoMsg
    /\ game_id = None
    /\ board = InitialBoard
    /\ my_color = None
    /\ opponent_name = None
    /\ engine = InitialEngine
    /\ stateFile = IdleData
    /\ effects = <<>>
    /\ history = [NoHistory EXCEPT !.kept = kept]
    /\ bot_process = NoProcess
    /\ procs = <<>>

MoveHistorySpec == HistoryInit({"make_move"}) /\ [][Next]_vars

ChallengeHistorySpec == HistoryInit({"accept_challenge"}) /\ [][Next]_vars

\* the clock and think-time helpers alone: lines 356-360 of _maybe_make_move
\* applied to every pair of raw clock values of RawClocks, for every pair of
\* positions of Materials (a position is its two piece counts here)
Materials ==
    {[queens |-> 2, non_pawn |-> 14], [queens |-> 1, non_pawn |-> 5],
     [queens |-> 0, non_pawn |-> 6], [queens |-> 1, non_pawn |-> 4]}

EndgameFlag(position) == EndgameOf(position.queens, position.non_pawn)

RawClocks ==
    {[k |-> "int", v |-> i * ClockStepMs] : i \in -1..MaxClockSteps}
    \cup {[k |-> kind, milli |-> m] :
             kind \in {"float", "str"}, m \in {-1500, -500, 500, 3200500}}
    \cup {[k |-> kind] : kind \in {"null", "nonfinite", "badstr", "other"}}

ThinkInit ==
    /\ pc = "think"
    /\ event = NoEvent
    /\ msg \in {[type |-> "gameState", moves |-> <<>>, wtime |-> w, btime |-> b] :
                   w \in RawClocks, b \in RawClocks}
    /\ game_id = None
    /\ board \in Materials \X Materials
    /\ my_color = None
    /\ opponent_name = None
    /\ engine = InitialEngine
    /\ stateFile = IdleData
    /\ effects = <<>>
    /\ history = NoHistory
    /\ bot_process = NoProcess
    /\ procs = <<>>

ToMsEffect(v) ==
    [op |-> "to_ms", arg |-> v, raised |-> FALSE, value |-> to_ms(v)]

ThinkEffect(position, my_time_ms) ==
    [op |-> "choose_think_time", position |-> position,
     my_time_ms |-> my_time_ms,
     value |-> ThinkTime(EndgameFlag(position), my_time_ms)]

\* lines 356-360, for either colour and either position of the pair
ThinkEval ==
    /\ pc = "think"
    /\ pc' = "thought"
    /\ effects' =
         <<ToMsEffect(msg.wtime), ToMsEffect(msg.btime),
           ThinkEffect(board[1], to_ms(msg.wtime)),
           ThinkEffect(board[1], to_ms(msg.btime)),
           ThinkEffect(board[2], to_ms(msg.wtime)),
           ThinkEffect(board[2], to_ms(msg.btime))>>
    /\ UNCHANGED <<event, msg, game_id, board, my_color, opponent_name, engine,
                   stateFile>>
    /\ UNCHANGED <<history, bot_process, procs>>

ThinkNext == ThinkEval

ThinkSpec == ThinkInit /\ [][ThinkNext]_vars

\* the status file between the bot, which writes it (_write_state), and the
\* control panel, a second process that reads it (read_bot_state) at any
\* moment.  stateFile is here [before, data, part]: data is the snapshot
\* last handed to _write_state, before the one the file held when that write
\* began, and part tells how much of data's JSON text the file holds:
\*   "complete"  all of it
\*   "empty"     nothing: open(STATE_FILE, "w") has truncated the file
\*   "prefix"    a proper prefix: the buffered text reaches the file in
\*               more than one write
Snapshots ==
    {IdleData}
    \cup {StateData(g, st, None, None, None) :
             g \in GameIds, st \in {"starting", "finished"}}
    \cup {StateData(g, "playing", "white", m, "Opp") :
             g \in GameIds, m \in {None, "e2e4"}}

FileInit ==
    /\ pc = "file_closed"
    /\ event = NoEvent
    /\ msg = NoMsg
    /\ game_id = None
    /\ board = InitialBoard
    /\ my_color = None
    /\ opponent_name = None
    /\ engine = InitialEngine
    /\ stateFile = [before |-> IdleData, data |-> IdleData, part |-> "complete"]
    /\ effects = <<>>
    /\ history = NoHistory
    /\ bot_process = NoProcess
    /\ procs = <<>>

\* _write_state, line 306: open(STATE_FILE, "w") truncates the file in place
OpenForWrite ==
    /\ pc = "file_closed"
    /\ pc' = "file_open"
    /\ \E data \in Snapshots :
         stateFile' = [before |-> stateFile.data, data |-> data, part |-> "empty"]
    /\ effects' = <<>>
    /\ UNCHANGED <<event, msg, game_id, board, my_color, opponent_name, engine>>
    /\ UNCHANGED <<history, bot_process, procs>>

\* _write_state, line 306: open raises (the file cannot be opened); the
\* exception is caught at lines 308-309 and the file is left as it was
OpenRaises ==
    /\ pc = "file_closed"
    /\ effects' = <<Traceback("write_state")>>
    /\ UNCHANGED <<pc, event, msg, game_id, board, my_color, opponent_name,
                   engine, stateFile>>
    /\ UNCHANGED <<history, bot_process, procs>>

\* _write_state, line 307: a first part of the text of json.dump reaches the
\* file
WritePrefix ==
    /\ pc = "file_open"
    /\ stateFile.part = "empty"
    /\ stateFile' = [stateFile EXCEPT !.part = "prefix"]
    /\ effects' = <<>>
    /\ UNCHANGED <<pc, event, msg, game_id, board, my_color, opponent_name,
                   engine>>
    /\ UNCHANGED <<history, bot_process, procs>>

\* _write_state, lines 306-307: the with block is left, the rest of the text
\* is flushed and the file is closed
CloseFile ==
    /\ pc = "file_open"
    /\ pc' = "file_closed"
    /\ stateFile' = [stateFile EXCEPT !.part = "complete"]
    /\ effects' = <<>>
    /\ UNCHANGED <<event, msg, game_id, board, my_color, opponent_name, engine>>
    /\ UNCHANGED <<history, bot_process, procs>>

\* read_bot_state(): json.load hands back the snapshot of a complete text
\* and raises on an empty or cut text, which lines 109-110 turn into None
read_bot_state(file) ==
    IF file.part = "complete" THEN [k |-> "dict", data |-> file.data]
                              ELSE [k |-> "null"]

\* the control panel reads the file
ReadBotState ==
    /\ pc \in {"file_closed", "file_open"}
    /\ effects' = <<[op |-> "read_bot_state", value |-> read_bot_state(stateFile)]>>
    /\ UNCHANGED <<pc, event, msg, game_id, board, my_color, opponent_name,
                   engine, stateFile>>
    /\ UNCHANGED <<history, bot_process, procs>>

FileNext ==
    \/ OpenForWrite
    \/ OpenRaises
    \/ WritePrefix
    \/ CloseFile
    \/ ReadBotState

FileSpec == FileInit /\ [][FileNext]_vars

-----------------------------------------------------------------------------
(* The control panel's bot process: src/control_panel.py.  The requests    *)
(* are served by threads of one process, which share the globals; a call   *)
(* of is_bot_running, of Popen with the assignment of its result, and of   *)
(* terminate with the wait that follows it, is taken as one step each.     *)

\* the threads serving requests
Requests == {"r1", "r2"}

\* start_bot and api_bot_start; stop_bot and api_bot_stop; set_level;
\* restart_bot and api_bot_restart
Routes == {"start", "stop", "set_level", "restart"}

Alive == {p \in DOMAIN procs : procs[p]}

\* is_bot_running(), lines 27-29
is_bot_running(handle, ps) == handle # NoProcess /\ ps[handle]

Idle == [r \in Requests |-> "idle"]

PanelInit ==
    /\ pc = Idle
    /\ event = [r \in Requests |-> None]
    /\ bot_process = NoProcess
    /\ procs = <<>>
    /\ effects = <<>>
    /\ msg = NoMsg
    /\ game_id = None
    /\ board = InitialBoard
    /\ my_color = None
    /\ opponent_name = None
    /\ engine = InitialEngine
    /\ stateFile = IdleData
    /\ history = NoHistory

\* the first thing each route does about the process: _stop_bot_process for
\* stop (lines 298, 385), the test of is_bot_running() for the others
\* (lines 290, 314, 326, 363, 435-436)
Entry(route) == IF route = "stop" THEN "stop" ELSE "check"

\* a request arrives and a thread takes it
Request ==
    \E r \in Requests, route \in Routes :
      /\ pc[r] = "idle"
      /\ Len(procs) < MaxSpawns
      /\ pc' = [pc EXCEPT ![r] = Entry(route)]
      /\ event' = [event EXCEPT ![r] = route]
      /\ effects' = <<>>
      /\ UNCHANGED <<bot_process, procs, msg, game_id, board, my_color,
                     opponent_name, engine, stateFile, history>>

\* where a route goes on the outcome of is_bot_running(): start spawns if
\* not running (lines 290-291, 363-367), set_level stops and spawns if
\* running (lines 314-316), restart stops if running and spawns in any case
\* (lines 326-328, 435-438)
AfterCheck(route, running) ==
    CASE route = "start"     -> IF running THEN "idle" ELSE "spawn"
      [] route = "set_level" -> IF running THEN "stop" ELSE "idle"
      [] route = "restart"   -> IF running THEN "stop" ELSE "spawn"

\* the route's own test of is_bot_running()
RouteCheck ==
    \E r \in Requests :
      /\ pc[r] = "check"
      /\ pc' = [pc EXCEPT ![r] =
                  AfterCheck(event[r], is_bot_running(bot_process, procs))]
      /\ effects' = <<>>
      /\ UNCHANGED <<event, bot_process, procs, msg, game_id, board, my_color,
                     opponent_name, engine, stateFile, history>>

\* _stop_bot_process, line 74: the test of is_bot_running()
StopCheck ==
    \E r \in Requests :
      /\ pc[r] = "stop"
      /\ pc' = [pc EXCEPT ![r] = IF is_bot_running(bot_process, procs)
                                 THEN "terminate" ELSE "clear"]
      /\ effects' = <<>>
      /\ UNCHANGED <<event, bot_process, procs, msg, game_id, board, my_color,
                     opponent_name, engine, stateFile, history>>

\* _stop_bot_process, lines 78-82: bot_process.terminate(), then wait and
\* kill on timeout; the global is read again, and when another thread has
\* set it to None meanwhile the call raises AttributeError and the request
\* fails
Terminate ==
    \E r \in Requests :
      /\ pc[r] = "terminate"
      /\ IF bot_process = NoProcess
         THEN /\ pc' = [pc EXCEPT ![r] = "idle"]
              /\ effects' = <<[op |-> "AttributeError", route |-> event[r]]>>
              /\ procs' = procs
         ELSE /\ pc' = [pc EXCEPT ![r] = "clear"]
              /\ effects' = <<[op |-> "terminate", pid |-> bot_process]>>
              /\ procs' = [procs EXCEPT ![bot_process] = FALSE]
      /\ UNCHANGED <<event, bot_process, msg, game_id, board, my_color,
                     opponent_name, engine, stateFile, history>>

\* what follows _stop_bot_process in each route: nothing in stop,
\* _spawn_bot_process in set_level (line 316) and restart (lines 328, 438)
AfterStop(route) == IF route = "stop" THEN "idle" ELSE "spawn"

\* _stop_bot_process, lines 75 and 84: bot_process = None
ClearHandle ==
    \E r \in Requests :
      /\ pc[r] = "clear"
      /\ bot_process' = NoProcess
      /\ pc' = [pc EXCEPT ![r] = AfterStop(event[r])]
      /\ effects' = <<>>
      /\ UNCHANGED <<event, procs, msg, game_id, board, my_color,
                     opponent_name, engine, stateFile, history>>

\* _spawn_bot_process, lines 59-65: bot_process = subprocess.Popen(...)
Spawn ==
    \E r \in Requests :
      /\ pc[r] = "spawn"
      /\ Len(procs) < MaxSpawns
      /\ procs' = Append(procs, TRUE)
      /\ bot_process' = Len(procs) + 1
      /\ pc' = [pc EXCEPT ![r] = "idle"]
      /\ effects' = <<[op |-> "Popen", pid |-> Len(procs) + 1]>>
      /\ UNCHANGED <<event, msg, game_id, board, my_color, opponent_name,
                     engine, stateFile, history>>

\* a bot process ends by itself (bot.py exits or crashes)
BotExits ==
    \E p \in Alive :
      /\ procs' = [procs EXCEPT ![p] = FALSE]
      /\ effects' = <<>>
      /\ UNCHANGED <<pc, event, bot_process, msg, game_id, board, my_color,
                     opponent_name, engine, stateFile, history>>

PanelNext ==
    \/ Request
    \/ RouteCheck
    \/ StopCheck
    \/ Terminate
    \/ ClearHandle
    \/ Spawn
    \/ BotExits

PanelSpec == PanelInit /\ [][PanelNext]_vars

-----------------------------------------------------------------------------
(* Properties.  effects holds the calls of the step that led to the        *)
(* current state, so a state predicate over effects speaks of that step.   *)

AllMoves == WhiteMoves \cup BlackMoves

\* the places in effects of the calls named op
OpIndices(op) == {i \in DOMAIN effects : effects[i].op = op}

\* a gameFull or gameState message has just been dealt with
PositionHandled == pc = "handled" /\ msg.type \in {"gameFull", "gameState"}

\* the step queried the oracle
Queried == OpIndices("play") # {}

\* the position rebuilt from the message's move list alone
Rebuilt == apply_moves(InitialBoard, msg.moves).board

\* the step tried to restart the oracle and popen_uci raised
RestartFailed == \E i \in OpIndices("popen_uci") : ~effects[i].ok

\* C1: a gameFull or gameState message leads to a move attempt if and only
\* if own side is known and the side to move in the position rebuilt from
\* the message's move list is own side.
C1_MoveAttemptIffOwnTurn ==
    PositionHandled =>
        (Queried <=> (my_color # None /\ Turn(Rebuilt) = my_color))

\* C2: while own side is unknown in a session, no message of any type leads
\* to an oracle query or to a move submission.
C2_UnknownSideNeverMoves ==
    (pc \in {"game", "handled"} /\ my_color = None) =>
        (OpIndices("play") = {} /\ OpIndices("make_move") = {})

\* a gameFull that matched neither slot has been dealt with, white to move
C2_Witness ==
    /\ PositionHandled
    /\ msg = [type |-> "gameFull", moves |-> <<>>]
    /\ my_color = None
    /\ Turn(board) = "True"

\* C3: a move attempt queries the oracle once; when the oracle returns a
\* move, make_move is called exactly once, right after, with the session's
\* game id and that move; when it returns no move, make_move is not called,
\* nothing is raised and the session goes on; make_move is never called
\* without a move returned by the oracle.
C3_SubmitExactlyOncePerOracleMove ==
    LET plays   == OpIndices("play")
        submits == OpIndices("make_move")
    IN  /\ Cardinality(plays) <= 1
        /\ (submits # {} => plays # {})
        /\ \A i \in plays :
             LET res == effects[i].result
             IN  /\ (res \in AllMoves =>
                        /\ submits = {i + 1}
                        /\ effects[i + 1].move = res
                        /\ effects[i + 1].game_id = game_id
                        /\ event = [type |-> "gameStart", game |-> game_id]
                        /\ pc = "handled")
                 /\ (res = None =>
                        /\ submits = {}
                        /\ i = Len(effects)
                        /\ pc = "handled")
                 /\ (res \notin AllMoves => submits = {})

\* gameStart(g1), then a gameFull with own side white and an empty move list;
\* the oracle, given the default budget, returned e2e4, which was submitted
C3_Witness ==
    /\ event = [type |-> "gameStart", game |-> "g1"]
    /\ PositionHandled
    /\ msg = [type |-> "gameFull", moves |-> <<>>]
    /\ my_color = "True"
    /\ \E i \in OpIndices("play") :
         /\ effects[i].think = DEFAULT_THINK_TIME_SEC
         /\ effects[i].result = "e2e4"
         /\ i + 1 = Len(effects)
         /\ effects[i + 1] = [op |-> "make_move", game_id |-> "g1",
                              move |-> "e2e4", ok |-> TRUE]

\* C4: when the oracle reports abnormal termination during a move attempt,
\* no move is submitted and the oracle is restarted; once restarted, the
\* handle is a new live process, the session goes on, and every later query
\* (one is made whenever a message leaves this side to move) goes to the
\* handle in place, which is alive.
C4_TerminationRestartsAndSessionGoesOn ==
    /\ \A i \in OpIndices("play") :
         /\ (effects[i].result = "EngineTerminatedError" =>
                /\ OpIndices("make_move") = {}
                /\ OpIndices("popen_uci") = {i + 1}
                /\ (effects[i + 1].ok =>
                       /\ pc = "handled"
                       /\ event = [type |-> "gameStart", game |-> game_id]
                       /\ engine.alive
                       /\ engine.gen = effects[i].gen + 1))
         /\ (effects[i].result # "EngineTerminatedError" =>
                /\ OpIndices("popen_uci") = {}
                /\ engine.alive
                /\ effects[i].gen = engine.gen)
    /\ (PositionHandled /\ engine.gen > 0 /\ my_color # None
        /\ Turn(board) = my_color => Queried)

\* after a restart, a gameState with this side to move has led to a query of
\* the new process, whose move was submitted
C4_Witness ==
    /\ PositionHandled
    /\ msg.type = "gameState"
    /\ engine.gen = 1
    /\ \E i \in OpIndices("play") :
         /\ effects[i].gen = 1
         /\ effects[i].result \in AllMoves
         /\ effects[i + 1].op = "make_move"
         /\ effects[i + 1].ok

\* play_game is over because its stream ended or because reading it raised
GameStreamOver ==
    /\ pc = "dispatched"
    /\ event.type = "gameStart"
    /\ OpIndices("apply_moves") = {}
    /\ OpIndices("AttributeError") = {}

\* C5: when the game stream has ended, gracefully or by an error, the status
\* published last is idle, preceded by finished.
C5_StreamEndResetsStatus ==
    GameStreamOver =>
        /\ stateFile.status = "idle"
        /\ Len(effects) >= 2
        /\ effects[Len(effects) - 1].op = "write_state"
        /\ effects[Len(effects) - 1].data.status = "finished"
        /\ effects[Len(effects)] = WriteEffect(IdleData)

\* the step dealt with a message and something in it raised
ProcessingError ==
    \E i \in DOMAIN effects :
      \/ effects[i].op \in {"traceback", "AttributeError"}
         /\ event.type = "gameStart"
      \/ effects[i].op = "play"
         /\ effects[i].result \in {"Exception", "EngineTerminatedError"}
      \/ effects[i].op = "make_move" /\ ~effects[i].ok
      \/ effects[i].op = "popen_uci" /\ ~effects[i].ok

\* C6: an error raised while a message of the game stream is dealt with is
\* caught and the session goes on to the next message.
C6_ProcessingErrorIsCaught ==
    (ProcessingError /\ ~GameStreamOver) => pc = "handled"

\* C7 as stated: when the restart of the oracle fails, the process halts: it
\* takes no further step.
C7_Original == RestartFailed => ~(ENABLED Next)

\* C7 as amended: when the restart of the oracle fails, the failure leaves
\* the game session, which ends, and is caught by the event dispatch of the
\* supervisor: the process does not halt, the supervisor goes on to the next
\* event of the same incoming stream, and the terminated handle stays in
\* place.
C7_RestartFailureEndsSessionOnly ==
    RestartFailed =>
        /\ pc = "dispatched"
        /\ event.type = "gameStart"
        /\ game_id = None
        /\ ~engine.alive
        /\ effects[Len(effects)] = Traceback("play_game")
        /\ ENABLED NextEvent

\* the restart has failed
C7_Witness == RestartFailed /\ pc = "dispatched"

\* the challenge the policy was applied to, and what it handed back
PolicyChallenge == event.challenge

PolicyResult == effects[1]

\* the number a limit or increment field stands for
Seconds(x) == IF x.k = "int" THEN x.v ELSE x.milli \div 1000

IsNumber(x) == x.k = "int" \/ (x.k = "str" /\ x.intform)

\* every field is there and has its type
WellFormed(ch) ==
    /\ ch.challenger.k = "dict"
    /\ ch.variant.k = "dict"
    /\ ch.rated.k = "bool"
    /\ ch.timeControl.k = "dict"
    /\ (ch.timeControl.type = "clock" =>
            IsNumber(ch.timeControl.limit) /\ IsNumber(ch.timeControl.increment))

\* C8: a challenge is accepted if and only if the challenger is not the bot,
\* the variant is allowed, the challenge is not rated, the time control is a
\* clock, the base time is at most 900 s and the increment at most 10 s; a
\* rated challenge, a base time of 901 s and a self-issued challenge are
\* rejected whatever the other fields are.
C8_AcceptIffAllConditions ==
    pc = "policy_done" =>
        LET ch == PolicyChallenge
            tc == ch.timeControl
        IN  /\ (WellFormed(ch) =>
                  (PolicyResult.value <=>
                      /\ ch.challenger.id # my_id
                      /\ ch.variant.key = "standard"
                      /\ ~ch.rated.v
                      /\ tc.type = "clock"
                      /\ Seconds(tc.limit) <= 900
                      /\ Seconds(tc.increment) <= 10))
            /\ (ch.rated = [k |-> "bool", v |-> TRUE] => ~PolicyResult.value)
            /\ (ch.challenger = [k |-> "dict", id |-> my_id] => ~PolicyResult.value)
            /\ (tc.k = "dict" /\ tc.limit = [k |-> "int", v |-> 901]
                => ~PolicyResult.value)

\* a challenge at both ceilings has been accepted
C8_Witness ==
    /\ pc = "policy_done"
    /\ PolicyResult.value
    /\ PolicyChallenge.timeControl.limit = [k |-> "int", v |-> 900]
    /\ PolicyChallenge.timeControl.increment = [k |-> "int", v |-> 10]

\* a field is null or not a number where the evaluation reads it
NamedMalformed(ch) ==
    \/ ch.challenger.k = "null"
    \/ ch.variant.k = "null"
    \/ ch.timeControl.k = "null"
    \/ /\ ch.timeControl.k = "dict"
       /\ ch.timeControl.type = "clock"
       /\ \/ ch.timeControl.limit.k \in {"null", "badstr"}
          \/ ch.timeControl.increment.k \in {"null", "badstr"}

\* C9: the policy never raises to its caller, and it rejects every challenge
\* on which its evaluation raises, and every challenge with a null
\* challenger, variant or timeControl or a non-numeric limit or increment.
C9_FailsClosed ==
    pc = "policy_done" =>
        /\ ~PolicyResult.raised
        /\ (should_accept_body(PolicyChallenge).raised => ~PolicyResult.value)
        /\ (NamedMalformed(PolicyChallenge) => ~PolicyResult.value)

\* a challenge that passes every test up to its null timeControl, on which
\* the evaluation raises, has been rejected
C9_Witness ==
    /\ pc = "policy_done"
    /\ PolicyChallenge.challenger = Opp
    /\ PolicyChallenge.variant = Standard
    /\ PolicyChallenge.rated = Unrated
    /\ PolicyChallenge.timeControl = Null
    /\ should_accept_body(PolicyChallenge).raised
    /\ ~PolicyResult.value

\* the event stream has just ended and run sleeps
StreamEnded == effects # <<>> /\ effects[1].op = "sleep"

\* run has just called handle_event_stream again
Resubscribed == pc = "events" /\ effects = <<Subscribe>>

\* C10: when the event stream ends, cleanly, by a transport error or by any
\* other error, run sleeps (5 s, or 10 s after an unexpected error) and then
\* subscribes again: every end of the stream is followed by a subscription.
C10_AlwaysResubscribes ==
    /\ [](StreamEnded =>
            /\ pc = SleepPc(effects[1].secs)
            /\ effects[1].secs = (IF effects[1].cause = "unexpected" THEN 10 ELSE 5))
    /\ (StreamEnded ~> Resubscribed)

\* the stream ended by an unexpected error and run has subscribed again
C10_Witness == Resubscribed /\ event = NoEvent

-----------------------------------------------------------------------------
(* Properties of the clock and think-time helpers, under ThinkSpec *)

ToMsCalls == {i \in DOMAIN effects : effects[i].op = "to_ms"}

ThinkCalls == {i \in DOMAIN effects : effects[i].op = "choose_think_time"}

\* C11: for every raw clock value (an int, a float, a numeric string, null,
\* a value of another type) _to_ms raises nothing and returns a non-negative
\* integer; null and values of another type give 0.
C11_ToMsNonNegative ==
    \A i \in ToMsCalls :
      /\ ~effects[i].raised
      /\ effects[i].value \in Nat
      /\ (effects[i].arg.k \in {"null", "other"} => effects[i].value = 0)

\* C12: for every position and every remaining time the budget is at least
\* 0.02 s and at most 0.5 s; for a remaining time of 0 or less it is the
\* default 0.2 s whatever the position.
C12_BudgetWithinBounds ==
    \A i \in ThinkCalls :
      /\ effects[i].value >= ThinkFloor
      /\ effects[i].value <= ThinkCeiling
      /\ (effects[i].my_time_ms <= 0 => effects[i].value = DEFAULT_THINK_TIME_SEC)

\* an unknown white clock gave the default for an endgame and for a
\* non-endgame position, and a long black clock gave more than the floor
C12_Witness ==
    /\ pc = "thought"
    /\ msg.wtime = [k |-> "null"]
    /\ EndgameFlag(board[1]) /\ ~EndgameFlag(board[2])
    /\ effects[3].value = DEFAULT_THINK_TIME_SEC
    /\ effects[5].value = DEFAULT_THINK_TIME_SEC
    /\ effects[4].my_time_ms > 0
    /\ effects[4].value > ThinkFloor

\* C13 as stated: for every remaining time the budget of an endgame position
\* is strictly less than the budget of a position that is not an endgame.
C13_Original ==
    \A i, j \in ThinkCalls :
      (/\ effects[i].my_time_ms = effects[j].my_time_ms
       /\ EndgameFlag(effects[i].position)
       /\ ~EndgameFlag(effects[j].position))
      => effects[i].value < effects[j].value

\* the remaining time from which the budget of a non-endgame position is
\* above the floor: base - 0.05 > 0.02
AboveFloor(my_time_ms) ==
    my_time_ms * (TicksPerSec \div 40000) > ThinkFloor + MOVE_OVERHEAD_SEC

\* C13 as amended: for every remaining time the budget of an endgame
\* position is at most the budget of a position that is not an endgame; it
\* is strictly less exactly when the non-endgame budget is above the 0.02 s
\* floor (a remaining time above 2800 ms), and equal otherwise (both at the
\* floor, or both the default when the time is 0 or less).
C13_EndgameLessAboveFloor ==
    \A i, j \in ThinkCalls :
      (/\ effects[i].my_time_ms = effects[j].my_time_ms
       /\ EndgameFlag(effects[i].position)
       /\ ~EndgameFlag(effects[j].position))
      => /\ effects[i].value <= effects[j].value
         /\ (effects[i].value < effects[j].value
               <=> AboveFloor(effects[i].my_time_ms))
         /\ (effects[j].value > ThinkFloor /\ effects[j].my_time_ms > 0
               => effects[i].value < effects[j].value)

\* an endgame and a non-endgame position, 8 s on the clock: the endgame
\* budget is the smaller one
C13_Witness ==
    /\ pc = "thought"
    /\ EndgameFlag(board[1]) /\ ~EndgameFlag(board[2])
    /\ effects[3].my_time_ms = 8000
    /\ effects[3].value < effects[5].value

\* the remaining time at which the 0.5 s ceiling of line 384 sets in
CeilingPointMs == ThinkCeiling \div (TicksPerSec \div 40000)

\* C14 as stated: for a fixed position and all remaining times t1 <= t2
\* below the point where the ceiling applies, budget(t1) <= budget(t2).
C14_Original ==
    \A i, j \in ThinkCalls :
      (/\ effects[i].position = effects[j].position
       /\ effects[i].my_time_ms <= effects[j].my_time_ms
       /\ effects[j].my_time_ms < CeilingPointMs)
      => effects[i].value <= effects[j].value

\* C14 as amended: for a fixed position and all known remaining times
\* 0 < t1 <= t2, budget(t1) <= budget(t2); a remaining time of 0 or less
\* gives the default 0.2 s, which is more than the budget of a short clock.
C14_MonotoneForKnownTime ==
    \A i, j \in ThinkCalls :
      (/\ effects[i].position = effects[j].position
       /\ 0 < effects[i].my_time_ms
       /\ effects[i].my_time_ms <= effects[j].my_time_ms)
      => effects[i].value <= effects[j].value

\* two known clocks below the ceiling point, the longer one with the
\* strictly larger budget
C14_Witness ==
    /\ pc = "thought"
    /\ 0 < effects[3].my_time_ms
    /\ effects[3].my_time_ms < effects[4].my_time_ms
    /\ effects[4].my_time_ms < CeilingPointMs
    /\ effects[3].value < effects[4].value

-----------------------------------------------------------------------------
(* Properties of the session's position and of the supervisor, under Spec *)

\* C15: after a gameFull or gameState message has been dealt with, the
\* session's position is the replay of the message's move list from the
\* initial position, whatever the earlier messages left; an empty list
\* gives the initial position.
C15_PositionIsReplayFromInitial ==
    PositionHandled =>
        /\ board = Rebuilt
        /\ (msg.moves = <<>> => board = InitialBoard)

\* the position reached from b by the tokens of moves that precede the
\* first token push_uci rejects
RECURSIVE ReplayUntilIllegal(_, _, _)
ReplayUntilIllegal(b, moves, i) ==
    IF i > Len(moves) \/ ~IsLegal(b, moves[i]) THEN b
    ELSE ReplayUntilIllegal(Append(b, moves[i]), moves, i + 1)

\* the replay of the step met a token push_uci rejected
IllegalTokenMet == \E i \in OpIndices("traceback") : effects[i].src = "push_uci"

\* C16: when the move list of a message holds an illegal token, the replay
\* raises nothing, the session goes on, and the position is the one reached
\* by the legal moves before the illegal token: the tokens after it do not
\* change the position.
C16_IllegalTokenStopsReplay ==
    (IllegalTokenMet /\ ~RestartFailed) =>
        /\ pc = "handled"
        /\ board = ReplayUntilIllegal(effects[1].board, msg.moves, 1)

\* a session is live
SessionLive == game_id # None

\* C17: at most one session is live at a time: while a session is live the
\* supervisor is inside play_game for the gameStart event of that game and
\* takes no incoming event (no challenge, no gameStart, no gameFinish, no
\* end of the event stream) until the session is over.
C17_OneSessionAtATime ==
    /\ (SessionLive <=> pc \in {"game", "handled"})
    /\ (SessionLive =>
          /\ event = [type |-> "gameStart", game |-> game_id]
          /\ ~(ENABLED ChallengeEvent)
          /\ ~(ENABLED GameStartEvent)
          /\ ~(ENABLED GameFinishEvent)
          /\ ~(ENABLED EventStreamEnd))

\* the session of g2 is live and has dealt with a message, after an earlier
\* session in which the oracle was restarted
C17_Witness ==
    /\ game_id = "g2"
    /\ PositionHandled
    /\ engine.gen = 1
    /\ OpIndices("play") # {} /\ OpIndices("popen_uci") = {}

\* play_game has just been entered: status starting is written and the game
\* stream is opened
SessionStarted ==
    /\ pc = "game"
    /\ Len(effects) = 2
    /\ effects[2].op = "stream_game_state"

\* C19: every gameStart event starts a fresh session: the position is the
\* initial one, own side is unknown and the opponent name is unset,
\* however the session before ended.
C19_FreshSession ==
    SessionStarted =>
        /\ game_id = event.game
        /\ board = InitialBoard
        /\ my_color = None
        /\ opponent_name = None
        /\ msg = NoMsg

\* a session starts after one that ended by an error: the oracle restart
\* of that session failed, the status file was never reset
C19_Witness ==
    /\ SessionStarted
    /\ ~engine.alive
    /\ board = InitialBoard /\ my_color = None

\* the places in effects where the status file is written
Writes == OpIndices("write_state")

\* C20: the status is published on every transition of the session, in
\* order: starting when the session is created; for every gameFull and
\* gameState message playing, with the game id, own colour, the last move of
\* the message's list and the opponent, before any move attempt for that
\* message; finished and then idle when the game stream ends, after which
\* no starting or playing status stays published; a chat message or one of
\* another type publishes nothing.
C20_StatusPublishedInOrder ==
    /\ (SessionStarted =>
          /\ effects[1] = WriteEffect(StateData(game_id, "starting", None, None, None))
          /\ stateFile = effects[1].data)
    /\ (PositionHandled =>
          /\ Cardinality(Writes) = 1
          /\ \A i \in Writes :
               /\ effects[i].data =
                    PlayingData(game_id, my_color, msg.moves, opponent_name)
               /\ stateFile = effects[i].data
               /\ \A j \in OpIndices("play") \cup OpIndices("make_move") : i < j)
    /\ (pc = "handled" /\ msg.type \notin {"gameFull", "gameState"} =>
          effects = <<>>)
    /\ (GameStreamOver =>
          /\ Len(effects) >= 2
          /\ effects[Len(effects) - 1].op = "write_state"
          /\ effects[Len(effects) - 1].data.status = "finished"
          /\ effects[Len(effects)] = WriteEffect(IdleData)
          /\ stateFile.status \notin {"starting", "playing"})

-----------------------------------------------------------------------------
(* Property of the status file, under FileSpec *)

\* C18: a read of the status file made while the bot writes it never gives
\* a partial or empty record: it gives the complete snapshot published
\* before the write or the complete snapshot published by the write.
C18_ReadSeesCompleteSnapshot ==
    \A i \in OpIndices("read_bot_state") :
      /\ effects[i].value.k = "dict"
      /\ effects[i].value.data \in {stateFile.before, stateFile.data}

-----------------------------------------------------------------------------
(* Properties of the event dispatch, under Spec *)

\* the calls answering a challenge made by the last step
Replies == OpIndices("accept_challenge") \cup OpIndices("decline_challenge")

ChallengeDispatched == pc = "dispatched" /\ event.type = "challenge"

\* C21: for every challenge event exactly one of accept_challenge and
\* decline_challenge is called, with the id of that challenge: accept when
\* should_accept returns true, decline otherwise; when the call fails the
\* failure is caught and the supervisor goes on to the next event of the same
\* stream, without subscribing again; a gameFinish event causes no call and
\* changes nothing of the bot's state.
C21_ChallengeAnsweredOnce ==
    /\ [](ChallengeDispatched =>
            /\ Cardinality(Replies) = 1
            /\ \A i \in Replies :
                 /\ effects[i].id = event.challenge.id
                 /\ (effects[i].op = "accept_challenge")
                      = should_accept(event.challenge).value
            /\ \A i \in 1..Len(effects) :
                 i \in Replies \/ effects[i] = Traceback("challenge"))
    /\ [](pc = "dispatched" /\ event.type = "gameFinish" => effects = <<>>)
    /\ [][pc = "dispatched" => pc' = "events" /\ effects' = <<>>]_vars
    /\ [][event'.type = "gameFinish" =>
            UNCHANGED <<msg, game_id, board, my_color, opponent_name, engine,
                        stateFile>>]_vars

\* the call accepting a challenge failed
C21_Witness ==
    /\ ChallengeDispatched
    /\ effects[1].op = "accept_challenge"
    /\ ~effects[1].ok
    /\ ENABLED NextEvent

-----------------------------------------------------------------------------
(* Property of the oracle's configuration, under Spec *)

\* C23: every oracle process asked for a move by engine.play has been
\* configured with Threads, Hash and Skill Level: the process started by
\* __init__ and every process started by the restart of line 375.
C23_QueriedEngineConfigured ==
    \A i \in OpIndices("play") : effects[i].configured

-----------------------------------------------------------------------------
(* Properties of the bot's history, under MoveHistorySpec (C22) and *)
(* ChallengeHistorySpec (C24)                                      *)

\* C22: within one session at most one move is submitted for any position:
\* when the game stream delivers the same move list again with this side to
\* move, make_move is not called a second time for it.
C22_OneMovePerPosition ==
    \A i \in OpIndices("make_move") :
      effects[i].ok => board \notin history.submitted

\* C24: the supervisor never has more than one accepted and unfinished game:
\* accept_challenge is not called while a game accepted earlier has not been
\* started and played to the end of its stream.
C24_OneAcceptedGame == Cardinality(history.accepted) <= 1

-----------------------------------------------------------------------------
(* Property of the control panel's bot process, under PanelSpec *)

\* C25: whatever start, stop, set_level and restart requests the panel
\* serves, one after the other or at the same time, at most one bot process
\* it has spawned is alive, and the alive one is the process bot_process
\* refers to: no process is spawned while an earlier one still runs.
C25_AtMostOneBotProcess ==
    /\ Cardinality(Alive) <= 1
    /\ \A p \in Alive : bot_process = p

====
